---- MODULE Spec2Model ----
(***************************************************************************)
(* Model of dashboard.py: the spreadsheet-backed record store              *)
(* (load_or_create_google_sheet / save_google_sheet), the signup, login    *)
(* and dashboard handlers that use it, and the per-session page state.     *)
(*                                                                         *)
(* A worksheet is a grid of text cells.  A DataFrame is a list of column   *)
(* names and a list of rows of Python values; a Python value is a record   *)
(* [t, s] with t its type ("str", "int", "nan") and s its str() rendering. *)
(***************************************************************************)
EXTENDS Integers, Sequences, FiniteSets, TLC

VARIABLES exists, cells, page, logged_in, user, obs, pc, ldf, rec, lastw

vars == <<exists, cells, page, logged_in, user, obs, pc, ldf, rec, lastw>>

(***************************************************************************)
(* Bounds and input domains                                                *)
(***************************************************************************)
MaxUsers == 2
MaxTx == 1
SumRows == 3

Sessions == {"A", "B"}
\* the sessions that act when the handler runs are taken one at a time
Actors == {"A"}
Tables == {"Users", "Transactions"}

\* text typed into the Email / Password inputs; "7" is an address made of digits
Emails == {"", "a@x", "7"}
Passwords == {"", "p", "q"}
Salts == {"s1"}
Budgets == {0}
Amounts == {-2000, 5000}
SumAmounts == {-2000, 3000, 5000}
SumUsers == {"a@x", "b@x"}
RaceEmails == {"a@x", "b@x"}
RacePasswords == {"p"}
Dates == {"2025-11-30"}
Kategori == {"Makanan"}

\* the integers whose decimal rendering can occur in a cell of the model
IntLiterals == Amounts \cup SumAmounts \cup Budgets \cup {7}
Numerals == {ToString(n) : n \in IntLiterals}
IntValue(s) == CHOOSE n \in IntLiterals : ToString(n) = s

EXPECTED_USERS_COLS == <<"Email", "Password", "Total_Budget">>
EXPECTED_TRANSACTIONS_COLS == <<"User", "Tanggal", "Kategori", "Jumlah">>

ExpectedCols(name) ==
  IF name = "Users" THEN EXPECTED_USERS_COLS ELSE EXPECTED_TRANSACTIONS_COLS

(***************************************************************************)
(* Python values and DataFrames                                            *)
(***************************************************************************)
PyStr(x) == [t |-> "str", s |-> x]
PyInt(n) == [t |-> "int", s |-> ToString(n)]
NaN == [t |-> "nan", s |-> "nan"]

\* gspread's numericise, applied by get_all_records to every data cell
numericise(c) == IF c \in Numerals THEN [t |-> "int", s |-> c] ELSE PyStr(c)

RECURSIVE SeqMax(_)
SeqMax(q) == IF q = <<>> THEN 0
             ELSE LET m == SeqMax(Tail(q)) IN IF Head(q) > m THEN Head(q) ELSE m

\* a function on 1..n as the tuple of its values
AsSeq(f) == <<>> \o f

Width(grid) == SeqMax(AsSeq([i \in 1..Len(grid) |-> Len(grid[i])]))
PadTo(row, w) == AsSeq([j \in 1..w |-> IF j <= Len(row) THEN row[j] ELSE ""])

IsUnique(q) == \A i, j \in 1..Len(q) : q[i] = q[j] => i = j

NoFrame == [columns |-> <<>>, rows |-> <<>>]
EmptyFrame(cols) == [columns |-> cols, rows |-> <<>>]

\* ws.get_all_records() raises when the header row repeats a name
RecordsRaise(grid) == Len(grid) >= 1 /\ ~IsUnique(PadTo(grid[1], Width(grid)))

\* pd.DataFrame(ws.get_all_records()): row 1 is the header, the other rows are
\* the records; no data row gives a frame with no columns at all
get_all_records(grid) ==
  IF Len(grid) <= 1 THEN NoFrame
  ELSE LET w == Width(grid) IN
       [columns |-> PadTo(grid[1], w),
        rows |-> AsSeq([i \in 1..(Len(grid) - 1) |->
                   AsSeq([j \in 1..w |-> numericise(PadTo(grid[i + 1], w)[j])])])]

IsEmpty(df) == df.rows = <<>> \/ df.columns = <<>>

HasCol(df, c) == \E j \in 1..Len(df.columns) : df.columns[j] = c
ColIdx(df, c) == CHOOSE j \in 1..Len(df.columns) : df.columns[j] = c
Col(df, c) == AsSeq([i \in 1..Len(df.rows) |-> df.rows[i][ColIdx(df, c)]])

\* value in df[c].values
InCol(df, c, v) == \E i \in 1..Len(df.rows) : Col(df, c)[i] = v
\* df[df[c] == v].iloc[0]
FirstRow(df, c, v) ==
  df.rows[CHOOSE i \in 1..Len(df.rows) :
            /\ Col(df, c)[i] = v
            /\ \A k \in 1..(i - 1) : Col(df, c)[k] # v]

RECURSIVE Missing(_, _)
Missing(cols, have) ==
  IF cols = <<>> THEN <<>>
  ELSE IF \E j \in 1..Len(have) : have[j] = Head(cols)
       THEN Missing(Tail(cols), have)
       ELSE <<Head(cols)>> \o Missing(Tail(cols), have)

Reindex(df, cols) ==
  AsSeq([i \in 1..Len(df.rows) |->
    AsSeq([j \in 1..Len(cols) |->
      IF HasCol(df, cols[j]) THEN df.rows[i][ColIdx(df, cols[j])] ELSE NaN])])

\* pd.concat([df, new], ignore_index=True): the union of the columns, those of
\* df first, a cell a frame lacks being NaN
concat(df, new) ==
  LET cols == df.columns \o Missing(new.columns, df.columns) IN
  [columns |-> cols, rows |-> Reindex(df, cols) \o Reindex(new, cols)]

\* df.copy().astype(str), then [columns] + values
Values(df) ==
  <<df.columns>> \o
  [i \in 1..Len(df.rows) |->
     AsSeq([j \in 1..Len(df.columns) |-> df.rows[i][j].s])]

(***************************************************************************)
(* The worksheet API                                                       *)
(***************************************************************************)
\* a ws_update that adds the rows below the ones present (ws.append_rows)
ws_update_appends(grid, values) == grid \o values

\* ws.update(values): writes the block at A1, leaving every other cell as is
ws_update(grid, values) ==
  LET n == IF Len(grid) > Len(values) THEN Len(grid) ELSE Len(values) IN
  AsSeq([i \in 1..n |->
     IF i > Len(values) THEN grid[i]
     ELSE IF i > Len(grid) THEN values[i]
     ELSE AsSeq([j \in 1..(IF Len(grid[i]) > Len(values[i])
                           THEN Len(grid[i]) ELSE Len(values[i])) |->
             IF j <= Len(values[i]) THEN values[i][j] ELSE grid[i][j]])])

\* ws.clear()
ws_clear(grid) == <<>>

\* the one API call of a handler run that fails, if any: the stage of the run
\* (its first load, its second load, its save) and the call within the stage
LoadFaults == {"read", "add", "update"}
SaveFaults == {"read", "clear", "update"}
NoFault == <<"none", "none">>
Faults1 == {NoFault} \cup {<<"load", c>> : c \in LoadFaults}
Faults2 == Faults1 \cup {<<"save", c>> : c \in SaveFaults}
Faults3 == Faults1 \cup {<<"load2", c>> : c \in LoadFaults}
Faults4 == Faults2 \cup Faults3
At(stage, fault) == IF fault[1] = stage THEN fault[2] ELSE "none"

(***************************************************************************)
(* load_or_create_google_sheet(sheet_name, expected_cols) on a worksheet   *)
(* that exists or not (ex) with cells grid: the worksheet afterwards, the  *)
(* frame returned, and whether the call raised to its caller.              *)
(***************************************************************************)
\* a LoadExcept that adds the worksheet and writes no header
LoadExcept_no_header(ex, grid, expected_cols, fault) ==
  IF ex \/ fault = "add"
  THEN [ex |-> ex, grid |-> grid, df |-> NoFrame, raised |-> TRUE]
  ELSE [ex |-> TRUE, grid |-> <<>>, df |-> EmptyFrame(expected_cols),
        raised |-> FALSE]

LoadExcept(ex, grid, expected_cols, fault) ==
  \* except: sheet.add_worksheet(...), ws.update([expected_cols])
  IF ex \/ fault = "add"
  THEN [ex |-> ex, grid |-> grid, df |-> NoFrame, raised |-> TRUE]
  ELSE IF fault = "update"
  THEN [ex |-> TRUE, grid |-> <<>>, df |-> NoFrame, raised |-> TRUE]
  ELSE [ex |-> TRUE, grid |-> ws_update(<<>>, <<expected_cols>>),
        df |-> EmptyFrame(expected_cols), raised |-> FALSE]

load_or_create_google_sheet(ex, grid, expected_cols, fault) ==
  IF ~ex \/ fault = "read" \/ RecordsRaise(grid)
  THEN LoadExcept(ex, grid, expected_cols, fault)
  ELSE LET df == get_all_records(grid) IN
       IF IsEmpty(df)
       THEN IF fault = "update"
            THEN LoadExcept(ex, grid, expected_cols, fault)
            ELSE [ex |-> TRUE, grid |-> ws_update(grid, <<expected_cols>>),
                  df |-> EmptyFrame(expected_cols), raised |-> FALSE]
       ELSE [ex |-> TRUE, grid |-> grid, df |-> df, raised |-> FALSE]

(***************************************************************************)
(* save_google_sheet(df, sheet_name)                                       *)
(***************************************************************************)
save_google_sheet(ex, grid, df, fault) ==
  IF ~ex \/ fault = "read" \/ fault = "clear"
  THEN [grid |-> grid, raised |-> TRUE]
  ELSE IF fault = "update"
  THEN [grid |-> ws_clear(grid), raised |-> TRUE]
  ELSE [grid |-> ws_update(ws_clear(grid), Values(df)), raised |-> FALSE]

(***************************************************************************)
(* bcrypt                                                                  *)
(***************************************************************************)
hash_password(password, salt) == "$" \o salt \o "$" \o password

Hashes == {hash_password(p, s) : p \in Passwords, s \in Salts}

\* "ok", "bad", or "raise" (a stored value that is no str or no bcrypt hash)
verify_password(password, hashed) ==
  IF hashed.t # "str" \/ hashed.s \notin Hashes THEN "raise"
  ELSE IF \E s \in Salts : hashed.s = hash_password(password, s) THEN "ok"
  ELSE "bad"

(***************************************************************************)
(* Session state (st.session_state) and the record of the last handler run *)
(***************************************************************************)
Unset == "<unset>"
None == "<None>"

NoTotals == [pengeluaran |-> 0, pemasukan |-> 0, sisa |-> 0, shown |-> FALSE]

\* what the last script run did: its inputs, the sheet before the run, the
\* frame its load returned and the sheet after that load (before any save),
\* and how it ended
NoObs ==
  [op |-> "init", s |-> "A", table |-> "Users", email |-> "", password |-> "",
   beforeEx |-> FALSE, before |-> <<>>, fault |-> NoFault, loadRaised |-> FALSE,
   df |-> NoFrame, afterEx |-> FALSE, afterLoad |-> <<>>, saved |-> "none",
   out |-> "",
   key |-> "", totals |-> NoTotals]

\* def go_to(page_name)
go_to(s, page_name) == page' = [page EXCEPT ![s] = page_name]

SetSheet(name, ex, grid) ==
  /\ exists' = [exists EXCEPT ![name] = ex]
  /\ cells' = [cells EXCEPT ![name] = grid]

Idle(s) == pc[s] = "idle"

(***************************************************************************)
(* Home page: the Login and Daftar buttons                                 *)
(***************************************************************************)
HomeLogin(s) ==
  /\ Idle(s) /\ page[s] = "home"
  /\ go_to(s, "login")
  /\ obs' = [NoObs EXCEPT !.op = "home_login", !.s = s]
  /\ UNCHANGED <<exists, cells, logged_in, user, pc, ldf, rec, lastw>>

HomeSignup(s) ==
  /\ Idle(s) /\ page[s] = "home"
  /\ go_to(s, "signup")
  /\ obs' = [NoObs EXCEPT !.op = "home_signup", !.s = s]
  /\ UNCHANGED <<exists, cells, logged_in, user, pc, ldf, rec, lastw>>

(***************************************************************************)
(* Login page                                                              *)
(***************************************************************************)
\* a LoginCheck that does not call verify_password
LoginCheck_no_verify(df, email, password) ==
  IF ~HasCol(df, "Email") THEN "raised"
  ELSE IF InCol(df, "Email", PyStr(email)) THEN "ok"
  ELSE "not_found"

\* the Login button: "ok", "wrong_password", "not_found" or "raised"
LoginCheck(df, email, password) ==
  IF ~HasCol(df, "Email") THEN "raised"
  ELSE IF InCol(df, "Email", PyStr(email))
  THEN IF ~HasCol(df, "Password") THEN "raised"
       ELSE LET user_data == FirstRow(df, "Email", PyStr(email))
                v == verify_password(password, user_data[ColIdx(df, "Password")])
            IN IF v = "ok" THEN "ok"
               ELSE IF v = "bad" THEN "wrong_password" ELSE "raised"
  ELSE "not_found"

LoginSubmit(s, email, password, fault) ==
  /\ Idle(s) /\ page[s] = "login"
  /\ \E L \in {load_or_create_google_sheet(exists["Users"], cells["Users"],
                    EXPECTED_USERS_COLS, At("load", fault))} :
     \E out \in {IF L.raised THEN "raised" ELSE LoginCheck(L.df, email, password)} :
        /\ SetSheet("Users", L.ex, L.grid)
        /\ IF out = "ok"
           THEN /\ logged_in' = [logged_in EXCEPT ![s] = TRUE]
                /\ user' = [user EXCEPT ![s] = email]
                /\ go_to(s, "dashboard")
           ELSE UNCHANGED <<logged_in, user, page>>
        /\ obs' = [NoObs EXCEPT !.op = "login", !.s = s, !.email = email,
                     !.password = password, !.beforeEx = exists["Users"],
                     !.before = cells["Users"], !.fault = fault,
                     !.loadRaised = L.raised, !.df = L.df,
                     !.afterEx = L.ex, !.afterLoad = L.grid, !.out = out]
  /\ UNCHANGED <<pc, ldf, rec, lastw>>

LoginToSignup(s) ==
  /\ Idle(s) /\ page[s] = "login"
  /\ go_to(s, "signup")
  /\ obs' = [NoObs EXCEPT !.op = "login_signup", !.s = s]
  /\ UNCHANGED <<exists, cells, logged_in, user, pc, ldf, rec, lastw>>

\* a Kembali button of the login page that names the wrong page
LoginBack_to_dashboard(s) ==
  /\ Idle(s) /\ page[s] = "login"
  /\ go_to(s, "dashboard")
  /\ obs' = [NoObs EXCEPT !.op = "login_back", !.s = s]
  /\ UNCHANGED <<exists, cells, logged_in, user, pc, ldf, rec, lastw>>

LoginBack(s) ==
  /\ Idle(s) /\ page[s] = "login"
  /\ go_to(s, "home")
  /\ obs' = [NoObs EXCEPT !.op = "login_back", !.s = s]
  /\ UNCHANGED <<exists, cells, logged_in, user, pc, ldf, rec, lastw>>

(***************************************************************************)
(* Signup page                                                             *)
(***************************************************************************)
\* a SignupCheck without the test for a registered email
SignupCheck_no_registered(df, email, password) ==
  IF email = "" \/ password = "" THEN "warning_blank"
  ELSE IF ~HasCol(df, "Email") THEN "raised"
  ELSE "append"

\* the checks of the Daftar button on the loaded frame
SignupCheck(df, email, password) ==
  IF email = "" \/ password = "" THEN "warning_blank"
  ELSE IF ~HasCol(df, "Email") THEN "raised"
  ELSE IF InCol(df, "Email", PyStr(email)) THEN "warning_registered"
  ELSE "append"

new_user(email, hashed_pw, total_budget) ==
  [columns |-> EXPECTED_USERS_COLS,
   rows |-> <<<<PyStr(email), PyStr(hashed_pw), PyInt(total_budget)>>>>]

SignupSubmit(s, email, password, total_budget, salt, fault) ==
  /\ Idle(s) /\ page[s] = "signup"
  /\ Len(cells["Users"]) <= MaxUsers
  /\ \E L \in {load_or_create_google_sheet(exists["Users"], cells["Users"],
                    EXPECTED_USERS_COLS, At("load", fault))} :
     \E chk \in {IF L.raised THEN "raised"
                 ELSE SignupCheck(L.df, email, password)} :
        IF chk = "append"
        THEN \E S \in {save_google_sheet(L.ex, L.grid,
                         concat(L.df, new_user(email,
                                  hash_password(password, salt), total_budget)),
                         At("save", fault))} :
             /\ SetSheet("Users", L.ex, S.grid)
             /\ obs' = [NoObs EXCEPT !.op = "signup", !.s = s, !.email = email,
                          !.password = password, !.beforeEx = exists["Users"],
                          !.before = cells["Users"], !.fault = fault,
                          !.df = L.df, !.afterEx = L.ex, !.afterLoad = L.grid,
                          !.saved = IF S.raised THEN "failed" ELSE "ok",
                          !.out = IF S.raised THEN "raised" ELSE "success"]
        ELSE /\ SetSheet("Users", L.ex, L.grid)
             /\ obs' = [NoObs EXCEPT !.op = "signup", !.s = s, !.email = email,
                          !.password = password, !.beforeEx = exists["Users"],
                          !.before = cells["Users"], !.fault = fault,
                          !.loadRaised = L.raised, !.df = L.df,
                          !.afterEx = L.ex, !.afterLoad = L.grid, !.out = chk]
  /\ UNCHANGED <<page, logged_in, user, pc, ldf, rec, lastw>>

SignupBack(s) ==
  /\ Idle(s) /\ page[s] = "signup"
  /\ go_to(s, "home")
  /\ obs' = [NoObs EXCEPT !.op = "signup_back", !.s = s]
  /\ UNCHANGED <<exists, cells, logged_in, user, pc, ldf, rec, lastw>>

(***************************************************************************)
(* Dashboard page                                                          *)
(***************************************************************************)
\* user_data = df[df["User"] == user]
UserRows(df, key) ==
  SelectSeq(df.rows, LAMBDA r : r[ColIdx(df, "User")] = PyStr(key))

RECURSIVE SumSeq(_)
SumSeq(q) == IF q = <<>> THEN 0 ELSE Head(q) + SumSeq(Tail(q))

Abs(n) == IF n < 0 THEN -n ELSE n

\* the Jumlah cells of the user's rows; a comparison with 0 raises on a str
Jumlah(df, key) ==
  LET rows == UserRows(df, key) IN
  AsSeq([i \in 1..Len(rows) |-> rows[i][ColIdx(df, "Jumlah")]])

JumlahRaises(df, key) ==
  \/ ~HasCol(df, "Jumlah")
  \/ \E i \in 1..Len(Jumlah(df, key)) : Jumlah(df, key)[i].t = "str"

IntsOf(q) ==
  LET nums == SelectSeq(q, LAMBDA v : v.t = "int") IN
  AsSeq([i \in 1..Len(nums) |-> IntValue(nums[i].s)])

\* user_data[user_data["Jumlah"] > 0]["Jumlah"].sum()
pengeluaran(df, key) ==
  SumSeq(SelectSeq(IntsOf(Jumlah(df, key)), LAMBDA n : n > 0))

\* a pemasukan without the abs()
pemasukan_signed(df, key) ==
  SumSeq(SelectSeq(IntsOf(Jumlah(df, key)), LAMBDA n : n < 0))

\* abs(user_data[user_data["Jumlah"] < 0]["Jumlah"].sum())
pemasukan(df, key) ==
  Abs(SumSeq(SelectSeq(IntsOf(Jumlah(df, key)), LAMBDA n : n < 0)))

sisa(df, key) == pemasukan(df, key) - pengeluaran(df, key)

Totals(df, key) ==
  [pengeluaran |-> pengeluaran(df, key), pemasukan |-> pemasukan(df, key),
   sisa |-> sisa(df, key), shown |-> TRUE]

new_row(key, tanggal, kategori, jumlah) ==
  [columns |-> <<"User", "Tanggal", "Kategori", "Jumlah">>,
   rows |-> <<<<PyStr(key), PyStr(tanggal), PyStr(kategori), PyInt(jumlah)>>>>]

\* the two loads every dashboard run starts with, Transactions then Users
DashLoads(T, U) ==
     IF T.raised
     THEN [T |-> T, exU |-> exists["Users"], gridU |-> cells["Users"],
           raised |-> TRUE]
     ELSE [T |-> T, exU |-> U.ex, gridU |-> U.grid,
           raised |-> U.raised \/ ~HasCol(T.df, "User")]

\* one run of the dashboard branch of the script
DashboardRun(s, menu, submit, tanggal, kategori, jumlah, fault) ==
  /\ Idle(s) /\ page[s] = "dashboard"
  /\ IF ~logged_in[s]
     THEN /\ go_to(s, "login")
          /\ obs' = [NoObs EXCEPT !.op = "guard", !.s = s]
          /\ UNCHANGED <<exists, cells>>
     ELSE
       \E T \in {load_or_create_google_sheet(exists["Transactions"],
                     cells["Transactions"], EXPECTED_TRANSACTIONS_COLS,
                     At("load", fault))},
          U \in {load_or_create_google_sheet(exists["Users"], cells["Users"],
                     EXPECTED_USERS_COLS, At("load2", fault))} :
       \E D \in {DashLoads(T, U)} :
       \E S \in {IF D.raised \/ ~submit THEN [grid |-> T.grid, raised |-> FALSE]
                 ELSE save_google_sheet(T.ex, T.grid,
                        concat(T.df, new_row(user[s], tanggal, kategori, jumlah)),
                        At("save", fault))} :
       LET base == [NoObs EXCEPT !.s = s, !.table = "Transactions",
                      !.beforeEx = exists["Transactions"],
                      !.before = cells["Transactions"], !.fault = fault,
                      !.loadRaised = T.raised, !.df = T.df,
                      !.afterEx = T.ex, !.afterLoad = T.grid, !.key = user[s]]
       IN /\ UNCHANGED page
          /\ exists' = [exists EXCEPT !["Transactions"] = T.ex,
                                      !["Users"] = D.exU]
          /\ cells' = [cells EXCEPT !["Transactions"] = S.grid,
                                    !["Users"] = D.gridU]
          /\ IF D.raised
             THEN obs' = [base EXCEPT !.op = IF submit THEN "submit" ELSE menu,
                                      !.out = "raised"]
             ELSE IF menu = "Dashboard" /\ submit
             THEN obs' = [base EXCEPT !.op = "submit",
                               !.saved = IF S.raised THEN "failed" ELSE "ok",
                               !.out = IF S.raised THEN "raised" ELSE "success"]
             ELSE obs' = [base EXCEPT !.op = menu,
                       !.out = IF menu = "Plot" /\ UserRows(T.df, user[s]) # <<>>
                                  /\ JumlahRaises(T.df, user[s])
                               THEN "raised" ELSE "ok",
                       !.totals = IF menu = "Plot" /\ UserRows(T.df, user[s]) # <<>>
                                     /\ ~JumlahRaises(T.df, user[s])
                                  THEN Totals(T.df, user[s]) ELSE NoTotals]
  /\ UNCHANGED <<logged_in, user, pc, ldf, rec, lastw>>

DashboardView(s, fault) ==
  DashboardRun(s, "Dashboard", FALSE, "", "", 0, fault)

TransactionSubmit(s, tanggal, kategori, jumlah, fault) ==
  /\ Len(cells["Transactions"]) <= MaxTx
  /\ DashboardRun(s, "Dashboard", TRUE, tanggal, kategori, jumlah, fault)

PlotMenu(s, fault) == DashboardRun(s, "Plot", FALSE, "", "", 0, fault)

DownloadMenu(s, fault) ==
  DashboardRun(s, "Download Data", FALSE, "", "", 0, fault)

\* the Logout button of the sidebar, reached only past the logged_in guard
Logout(s) ==
  /\ Idle(s) /\ page[s] = "dashboard" /\ logged_in[s]
  /\ logged_in' = [logged_in EXCEPT ![s] = FALSE]
  /\ user' = [user EXCEPT ![s] = None]
  /\ go_to(s, "home")
  /\ obs' = [NoObs EXCEPT !.op = "logout", !.s = s]
  /\ UNCHANGED <<exists, cells, pc, ldf, rec, lastw>>

(***************************************************************************)
(* Specification: one handler run at a time                                *)
(***************************************************************************)
NoRec == [table |-> "Users", loaded |-> NoFrame, df |-> NoFrame, done |-> FALSE]

\* worksheets the spreadsheet may hold before the first run
InitialUsers ==
  {<<>>,
   <<<<"Password", "Email", "Total_Budget">>,
     <<hash_password("p", "s1"), "a@x", "0">>>>,
   <<<<"email", "password", "total_budget">>,
     <<"a@x", hash_password("p", "s1"), "0">>>>}

SessionInit ==
  /\ page = [s \in Sessions |-> "home"]
  /\ logged_in = [s \in Sessions |-> FALSE]
  /\ user = [s \in Sessions |-> Unset]
  /\ obs = NoObs
  /\ pc = [s \in Sessions |-> "idle"]
  /\ ldf = [s \in Sessions |-> NoFrame]
  /\ rec = [s \in Sessions |-> NoRec]
  /\ lastw = [n \in Tables |-> "-"]

Init ==
  /\ \E eu \in BOOLEAN, gu \in InitialUsers :
       /\ (~eu => gu = <<>>)
       /\ exists = [n \in Tables |-> IF n = "Users" THEN eu ELSE FALSE]
       /\ cells = [n \in Tables |-> IF n = "Users" THEN gu ELSE <<>>]
  /\ SessionInit

Next ==
  \E s \in Actors :
    \/ HomeLogin(s)
    \/ HomeSignup(s)
    \/ \E e \in Emails, p \in Passwords, f \in Faults1 : LoginSubmit(s, e, p, f)
    \/ LoginToSignup(s)
    \/ LoginBack(s)
    \/ \E e \in Emails, p \in Passwords, b \in Budgets, sl \in Salts,
          f \in Faults2 : SignupSubmit(s, e, p, b, sl, f)
    \/ SignupBack(s)
    \/ \E f \in Faults3 : DashboardView(s, f)
    \/ \E d \in Dates, k \in Kategori, j \in Amounts, f \in Faults4 :
         TransactionSubmit(s, d, k, j, f)
    \/ \E f \in Faults3 : PlotMenu(s, f)
    \/ \E f \in Faults3 : DownloadMenu(s, f)
    \/ Logout(s)

Spec == Init /\ [][Next]_vars

(***************************************************************************)
(* Two sessions whose handler runs interleave at the worksheet API calls:  *)
(* a run that stores a record is the load (with the checks and the         *)
(* concat), then ws.clear(), then ws.update(...).  The sessions sign up,   *)
(* log in and submit transactions; no API call fails.                      *)
(***************************************************************************)
RSignupLoad(s, email, password, total_budget, salt) ==
  /\ Idle(s) /\ page[s] = "signup"
  /\ Len(cells["Users"]) <= MaxUsers
  /\ \E L \in {load_or_create_google_sheet(exists["Users"], cells["Users"],
                    EXPECTED_USERS_COLS, "none")} :
     \E chk \in {SignupCheck(L.df, email, password)} :
        /\ SetSheet("Users", L.ex, L.grid)
        /\ obs' = [NoObs EXCEPT !.op = "r_signup", !.s = s, !.out = chk]
        /\ IF chk = "append"
           THEN \E users \in {concat(L.df, new_user(email,
                                 hash_password(password, salt), total_budget))} :
                /\ pc' = [pc EXCEPT ![s] = "clear"]
                /\ ldf' = [ldf EXCEPT ![s] = users]
                /\ rec' = [rec EXCEPT ![s] = [table |-> "Users", loaded |-> L.df,
                                              df |-> users, done |-> FALSE]]
           ELSE UNCHANGED <<pc, ldf, rec>>
  /\ UNCHANGED <<page, logged_in, user, lastw>>

RSubmitLoad(s, tanggal, kategori, jumlah) ==
  /\ Idle(s) /\ page[s] = "dashboard" /\ logged_in[s]
  /\ Len(cells["Transactions"]) <= MaxTx
  /\ \E T \in {load_or_create_google_sheet(exists["Transactions"],
                  cells["Transactions"], EXPECTED_TRANSACTIONS_COLS, "none")},
        U \in {load_or_create_google_sheet(exists["Users"], cells["Users"],
                  EXPECTED_USERS_COLS, "none")} :
     \E D \in {DashLoads(T, U)} :
        /\ exists' = [exists EXCEPT !["Transactions"] = T.ex, !["Users"] = D.exU]
        /\ cells' = [cells EXCEPT !["Transactions"] = T.grid,
                                  !["Users"] = D.gridU]
        /\ obs' = [NoObs EXCEPT !.op = "r_submit", !.s = s,
                     !.table = "Transactions",
                     !.out = IF D.raised THEN "raised" ELSE "append"]
        /\ IF ~D.raised
           THEN \E df \in {concat(T.df,
                             new_row(user[s], tanggal, kategori, jumlah))} :
                /\ pc' = [pc EXCEPT ![s] = "clear"]
                /\ ldf' = [ldf EXCEPT ![s] = df]
                /\ rec' = [rec EXCEPT ![s] = [table |-> "Transactions",
                             loaded |-> T.df, df |-> df, done |-> FALSE]]
           ELSE UNCHANGED <<pc, ldf, rec>>
  /\ UNCHANGED <<page, logged_in, user, lastw>>

\* ws.clear() of save_google_sheet
RClear(s) ==
  /\ pc[s] = "clear"
  /\ cells' = [cells EXCEPT ![rec[s].table] = ws_clear(cells[rec[s].table])]
  /\ pc' = [pc EXCEPT ![s] = "update"]
  /\ obs' = [NoObs EXCEPT !.op = "r_clear", !.s = s, !.table = rec[s].table]
  /\ UNCHANGED <<exists, page, logged_in, user, ldf, rec, lastw>>

\* ws.update([columns] + values) of save_google_sheet
RUpdate(s) ==
  /\ pc[s] = "update"
  /\ cells' = [cells EXCEPT ![rec[s].table] =
                 ws_update(cells[rec[s].table], Values(ldf[s]))]
  /\ pc' = [pc EXCEPT ![s] = "idle"]
  /\ ldf' = [ldf EXCEPT ![s] = NoFrame]
  /\ rec' = [rec EXCEPT ![s].done = TRUE]
  /\ lastw' = [lastw EXCEPT ![rec[s].table] = s]
  /\ obs' = [NoObs EXCEPT !.op = "r_update", !.s = s, !.table = rec[s].table]
  /\ UNCHANGED <<exists, page, logged_in, user>>

InitRace ==
  /\ exists = [n \in Tables |-> n = "Users"]
  /\ cells = [n \in Tables |-> <<>>]
  /\ SessionInit

NextRace ==
  \E s \in Sessions :
    \/ HomeLogin(s)
    \/ HomeSignup(s)
    \/ \E e \in RaceEmails, p \in RacePasswords : LoginSubmit(s, e, p, NoFault)
    \/ SignupBack(s)
    \/ \E e \in RaceEmails, p \in RacePasswords, b \in Budgets, sl \in Salts :
         RSignupLoad(s, e, p, b, sl)
    \/ \E d \in Dates, k \in Kategori, j \in Amounts : RSubmitLoad(s, d, k, j)
    \/ RClear(s)
    \/ RUpdate(s)

SpecRace == InitRace /\ [][NextRace]_vars

(***************************************************************************)
(* The Plot menu on every small Transactions sheet                         *)
(***************************************************************************)
SumRow == {<<u, d, k, ToString(j)>> :
             u \in SumUsers, d \in Dates, k \in Kategori, j \in SumAmounts}

RECURSIVE SeqsUpTo(_, _)
SeqsUpTo(S, n) ==
  IF n = 0 THEN {<<>>}
  ELSE LET shorter == SeqsUpTo(S, n - 1) IN
       shorter \cup {Append(q, x) : q \in shorter, x \in S}

InitSummary ==
  /\ exists = [n \in Tables |-> TRUE]
  /\ \E rows \in SeqsUpTo(SumRow, SumRows) :
       cells = [n \in Tables |->
                  IF n = "Users"
                  THEN <<EXPECTED_USERS_COLS,
                         <<"a@x", hash_password("p", "s1"), "0">>,
                         <<"b@x", hash_password("p", "s1"), "0">>>>
                  ELSE <<EXPECTED_TRANSACTIONS_COLS>> \o rows]
  /\ page = [s \in Sessions |-> "dashboard"]
  /\ logged_in = [s \in Sessions |-> TRUE]
  /\ user \in [Sessions -> SumUsers]
  /\ obs = NoObs
  /\ pc = [s \in Sessions |-> "idle"]
  /\ ldf = [s \in Sessions |-> NoFrame]
  /\ rec = [s \in Sessions |-> NoRec]
  /\ lastw = [n \in Tables |-> "-"]

NextSummary == \E s \in Sessions : PlotMenu(s, NoFault)

SpecSummary == InitSummary /\ [][NextSummary]_vars

(***************************************************************************)
(* Properties                                                              *)
(***************************************************************************)
StoreRuns == {"login", "signup", "submit", "Dashboard", "Plot", "Download Data"}
DashRuns == {"submit", "Dashboard", "Plot", "Download Data"}

\* the rows of frame df whose cell under column c is the str x
RowsWith(df, c, x) ==
  {i \in 1..Len(df.rows) :
     \E j \in 1..Len(df.columns) :
        df.columns[j] = c /\ df.rows[i][j] = [t |-> "str", s |-> x]}

\* the Email cells of the data rows of the Users worksheet
EmailCells == {<<i, cells["Users"][i][1]>> : i \in 2..Len(cells["Users"])}

C2_EmailUnique ==
  \A a, b \in EmailCells : a[2] = b[2] => a[1] = b[1]

\* C3: when two sessions loaded the same table, each appended one record to
\* its copy and each saved, the worksheet is the copy of the session whose
\* update came last, one row longer than the table loaded: the other session's
\* record is gone.
BothSaved ==
  /\ rec["A"].done /\ rec["B"].done
  /\ rec["A"].table = rec["B"].table
  /\ rec["A"].loaded = rec["B"].loaded

C3_LastSaveWins ==
  BothSaved =>
    LET n == rec["A"].table
        w == lastw[n]
    IN /\ w \in Sessions
       /\ cells[n] = Values(rec[w].df)
       /\ Len(cells[n]) = Len(rec[w].loaded.rows) + 2

C3_Witness ==
  /\ BothSaved
  /\ rec["A"].table = "Transactions"
  /\ lastw["Transactions"] = "B"
  /\ rec["A"].df # rec["B"].df
  /\ cells["Transactions"] = Values(rec["B"].df)
  /\ \A i \in 1..Len(cells["Transactions"]) :
        cells["Transactions"][i] # Values(rec["A"].df)[Len(rec["A"].df.rows) + 1]

\* C4: a save that fails leaves the worksheet as it was before the save began.
C4_SaveAllOrNothing ==
  obs.saved = "failed" => cells[obs.table] = obs.afterLoad

\* C5: a load of a worksheet that exists and cannot be read does not raise: it
\* returns the empty frame of the expected columns and leaves the worksheet
\* holding just the expected header.
C5_LoadNeverRaises ==
  (obs.op \in StoreRuns /\ obs.beforeEx /\ obs.fault = <<"load", "read">>)
    => /\ ~obs.loadRaised
       /\ obs.df = [columns |-> ExpectedCols(obs.table), rows |-> <<>>]
       /\ obs.afterLoad = <<ExpectedCols(obs.table)>>

\* C6: a load of a worksheet that does not exist (the API calls succeeding)
\* returns a frame of no rows with exactly the expected columns, and the
\* worksheet then exists and holds the expected header and no data row.
C6_LoadMissingCreatesShell ==
  (obs.op \in StoreRuns /\ ~obs.beforeEx /\ obs.fault[1] # "load")
    => /\ ~obs.loadRaised
       /\ obs.df.rows = <<>>
       /\ obs.df.columns = ExpectedCols(obs.table)
       /\ obs.afterEx
       /\ obs.afterLoad = <<ExpectedCols(obs.table)>>

C6_Witness ==
  /\ obs.op = "login" /\ ~obs.beforeEx /\ obs.fault = NoFault
  /\ exists["Users"] /\ cells["Users"] = <<EXPECTED_USERS_COLS>>

\* C7: whatever the worksheet held, the frame a load returns and the header a
\* save then writes are the expected columns, in their order.
C7_CanonicalColumns ==
  (obs.op \in StoreRuns /\ ~obs.loadRaised)
    => /\ obs.df.columns = ExpectedCols(obs.table)
       /\ obs.saved = "ok" => cells[obs.table][1] = ExpectedCols(obs.table)

\* C8: the totals of the Plot menu are taken over the rows whose User is the
\* session's user and no other: expense the sum of their amounts above 0,
\* income the absolute value of the sum of their amounts below 0, remaining
\* income minus expense; 5000, -2000, 3000 give 8000, 2000, -6000.
RECURSIVE SumOver(_, _)
SumOver(I, f) ==
  IF I = {} THEN 0
  ELSE LET i == CHOOSE x \in I : TRUE IN f[i] + SumOver(I \ {i}, f)

OwnRows == RowsWith(obs.df, "User", obs.key)
Amount == [i \in 1..Len(obs.df.rows) |-> IntValue(obs.df.rows[i][4].s)]
OwnAmounts == [i \in 1..Cardinality(OwnRows) |->
                 Amount[CHOOSE k \in OwnRows :
                          Cardinality({m \in OwnRows : m < k}) = i - 1]]

C8_Summary ==
  (obs.op = "Plot" /\ obs.out = "ok" /\ OwnRows # {})
    => /\ obs.totals.shown
       /\ obs.totals.pengeluaran = SumOver({i \in OwnRows : Amount[i] > 0}, Amount)
       /\ obs.totals.pemasukan = -SumOver({i \in OwnRows : Amount[i] < 0}, Amount)
       /\ obs.totals.sisa = obs.totals.pemasukan - obs.totals.pengeluaran
       /\ OwnAmounts = <<5000, -2000, 3000>>
            => /\ obs.totals.pengeluaran = 8000
               /\ obs.totals.pemasukan = 2000
               /\ obs.totals.sisa = -6000

C8_Witness ==
  /\ obs.op = "Plot" /\ obs.out = "ok"
  /\ OwnAmounts = <<5000, -2000, 3000>>
  /\ obs.totals = [pengeluaran |-> 8000, pemasukan |-> 2000, sisa |-> -6000,
                   shown |-> TRUE]

C8_WitnessOthers ==
  /\ obs.op = "Plot" /\ obs.out = "ok"
  /\ Len(obs.df.rows) = 3 /\ Cardinality(OwnRows) = 2
  /\ obs.totals.shown

\* C9 as stated: a page changes only from home to login or signup, from login
\* to dashboard on a successful login, or from dashboard to home on logout.
StatedChange(s) ==
  \/ page[s] = "home" /\ page'[s] \in {"login", "signup"}
  \/ page[s] = "login" /\ page'[s] = "dashboard" /\ obs'.op = "login" /\ obs'.out = "ok"
  \/ page[s] = "dashboard" /\ page'[s] = "home" /\ obs'.op = "logout"

C9_StatedTransitions ==
  [][\A s \in Sessions : page'[s] # page[s] => StatedChange(s)]_vars

\* C9 amended: besides those, a page changes from login to signup or home and
\* from signup to home (the navigation buttons of the two pages), and a
\* dashboard without logged_in goes to login; a failed login stays on login.
C9_Transitions ==
  [][/\ \A s \in Sessions : page'[s] # page[s] =>
          \/ StatedChange(s)
          \/ page[s] = "login" /\ page'[s] \in {"signup", "home"}
          \/ page[s] = "signup" /\ page'[s] = "home"
          \/ page[s] = "dashboard" /\ ~logged_in[s] /\ page'[s] = "login"
     /\ (obs'.op = "login" /\ obs'.out # "ok") => page'[obs'.s] = "login"]_vars

C9_Witness ==
  obs.op = "login_back" /\ page[obs.s] = "home"

\* C10: a session becomes logged in, and its user is set to an email, only
\* by a login that found the email in the Users table it loaded, with a
\* password the hash of the first such row verifies; the user then stays until
\* logout, which leaves logged_in false and user None; and the dashboard body
\* runs, and a session is on the dashboard page, only with logged_in set.
FoundAndVerified(df, email, password) ==
  /\ RowsWith(df, "Email", email) # {}
  /\ LET i == CHOOSE k \in RowsWith(df, "Email", email) :
                \A m \in RowsWith(df, "Email", email) : k <= m
         j == CHOOSE k \in 1..Len(df.columns) : df.columns[k] = "Password"
     IN \E sl \in Salts :
          df.rows[i][j] = [t |-> "str", s |-> "$" \o sl \o "$" \o password]

C10_DashboardOnlyWhenLoggedIn ==
  [][/\ \A s \in Sessions :
          (logged_in'[s] /\ (~logged_in[s] \/ user'[s] # user[s]))
            => /\ obs'.op = "login" /\ obs'.s = s /\ ~obs'.loadRaised
               /\ user'[s] = obs'.email
               /\ FoundAndVerified(obs'.df, obs'.email, obs'.password)
     /\ \A s \in Sessions : page'[s] = "dashboard" => logged_in'[s]
     /\ obs'.op \in DashRuns =>
          logged_in'[obs'.s] /\ user'[obs'.s] = obs'.key
     /\ obs'.op = "logout" =>
          ~logged_in'[obs'.s] /\ user'[obs'.s] = None]_vars

C10_Witness ==
  /\ obs.op = "submit" /\ obs.out = "success"
  /\ logged_in[obs.s] /\ user[obs.s] = "a@x"

C10_WitnessLogout ==
  obs.op = "logout" /\ user[obs.s] = None /\ page[obs.s] = "home"

====
